---- MODULE Spec2Model ----
(***************************************************************************)
(* Voice-turn orchestrator of my-voice-app (the App component): speech     *)
(* capture -> one inference request per accepted utterance -> spoken reply.*)
(* The revision of the component that displays the reply (aiResponseText)  *)
(* is the one modelled.                                                    *)
(*                                                                         *)
(* Strings are TLA+ strings.  A nullable / optional JavaScript value is a  *)
(* sequence of length at most one: <<>> is null/undefined, <<v>> is v.     *)
(*                                                                         *)
(* The three browser services are the environment:                         *)
(*  - speech capture (useSpeechRecognition): listening, finalTranscript,   *)
(*    transcript, isMicrophoneAvailable.  A session is one-shot            *)
(*    (continuous: false): it finalizes at most one result, while it is    *)
(*    listening; resetTranscript empties the transcripts.                  *)
(*  - speech output (window.speechSynthesis): a queue of utterances whose  *)
(*    head is the current one; synth.speaking is true from the moment an   *)
(*    utterance is handed over (current utterance present) until it ends;  *)
(*    start/end/error events are delivered asynchronously, the end/error   *)
(*    event of a cancelled utterance possibly after newer calls.           *)
(*  - the network: every issued request stays in flight until it resolves  *)
(*    with one of Outcomes, in any order.                                  *)
(***************************************************************************)
EXTENDS Integers, Sequences, FiniteSets, TLC

VARIABLES
    lastProcessedTranscript, \* useRef<string|null>: <<>> or <<text>>
    isSynthesizing,          \* useState<boolean>
    isAiResponding,          \* useState<boolean>
    aiResponseText,          \* useState<string>
    listening,               \* capture: microphone active
    finalTranscript,         \* capture: finalized transcript
    transcript,              \* capture: live transcript
    isMicrophoneAvailable,   \* capture: microphone access
    utteranceQueue,          \* output engine: utterances handed to synth.speak
    utteranceStarted,        \* output engine: the head utterance has begun
    staleEvents,             \* output engine: an end/error event of a cancelled utterance is undelivered
    inflight,                \* network: requests issued by fetch and not yet resolved
    last,                    \* history: what the last step did
    hist                     \* history: accepted utterances

vars == <<lastProcessedTranscript, isSynthesizing, isAiResponding, aiResponseText,
          listening, finalTranscript, transcript, isMicrophoneAvailable,
          utteranceQueue, utteranceStarted, staleEvents, inflight, last, hist>>

\* ------------------------------------------------------------------ bounds

\* Most requests in flight at which the user still speaks a new utterance.
MaxInflight == 2

\* ----------------------------------------------------------------- strings

RECURSIVE TrimLeft(_)
TrimLeft(s) ==
    IF Len(s) > 0 /\ SubSeq(s, 1, 1) = " " THEN TrimLeft(SubSeq(s, 2, Len(s))) ELSE s

RECURSIVE TrimRight(_)
TrimRight(s) ==
    IF Len(s) > 0 /\ SubSeq(s, Len(s), Len(s)) = " "
    THEN TrimRight(SubSeq(s, 1, Len(s) - 1))
    ELSE s

\* String.prototype.trim
Trim(s) == TrimRight(TrimLeft(s))

\* JavaScript truthiness of a string
TruthyStr(s) == s # ""

\* JavaScript truthiness of an optional string (undefined and "" are falsy)
Truthy(opt) == opt # <<>> /\ opt[1] # ""

\* s contains m as a substring
Contains(s, m) ==
    \E i \in 1..(Len(s) - Len(m) + 1) : SubSeq(s, i, i + Len(m) - 1) = m

\* ------------------------------------------------------- fixed phrases

MicNotice == "Cannot start listening, microphone is not available."
ResetPhrase == "Transcript reset"
ParseFallback == "Failed to parse error response from function."
NoResponseField == "Received success status but no valid response field from function."
UnknownFeedback == "Sorry, I encountered an unknown error trying to respond."
FeedbackPrefix == "Sorry, I encountered an error: "

\* ------------------------------------------------------------ environment

\* What a session may finalize.  The whitespace-only text is there to reach
\* getAiResponse's own validation; an empty finalized transcript is a session
\* that ends without a result.
Results == {"what time is it", " "}

\* Text typed into the manual input field.
ManualTexts == {"say", " "}

\* What openai.chat.completions.create did: it returned a completion whose
\* first choice has `content` (<<>>: no choice or no content), or it threw: a
\* value with a .response (whose data may carry an error message), an Error,
\* or something else.
Replied(content) ==
    [threw |-> FALSE, hasResponse |-> FALSE, isError |-> FALSE,
     apiMessage |-> <<>>, message |-> "", content |-> content]

Threw(hasResponse, isError, apiMessage, message) ==
    [threw |-> TRUE, hasResponse |-> hasResponse, isError |-> isError,
     apiMessage |-> apiMessage, message |-> message, content |-> <<>>]

\* No call of the model provider stands behind an outcome.
NoCompletion == Replied(<<>>)

\* A Response as fetch resolves it: ok, status, statusText and the body as
\* response.json() sees it (json = FALSE: the body does not parse).  origin
\* tells the responses the backend handler produced (with the provider's
\* completion behind them) from all others.
HttpResponse(status, statusText, json, response, error) ==
    [kind |-> "response", ok |-> (status = 200), status |-> status,
     statusText |-> statusText, json |-> json, response |-> response,
     error |-> error, isError |-> TRUE, message |-> "",
     origin |-> "network", completion |-> NoCompletion]

\* fetch rejecting: with an Error (TypeError) or with a value that is no Error.
Rejection(isError, message) ==
    [kind |-> "reject", ok |-> FALSE, status |-> 0, statusText |-> "",
     json |-> FALSE, response |-> <<>>, error |-> <<>>, isError |-> isError,
     message |-> message, origin |-> "network", completion |-> NoCompletion]

NoOutcome ==
    [kind |-> "none", ok |-> FALSE, status |-> 0, statusText |-> "",
     json |-> FALSE, response |-> <<>>, error |-> <<>>, isError |-> FALSE,
     message |-> "", origin |-> "network", completion |-> NoCompletion]

JsonSyntaxMessage == "Unexpected token < in JSON at position 0"

Outcomes ==
    { HttpResponse(200, "OK", TRUE, <<"It is 3:45 PM.">>, <<>>),
      HttpResponse(200, "OK", TRUE, <<" ">>, <<>>),
      HttpResponse(200, "OK", TRUE, <<"">>, <<>>),
      HttpResponse(200, "OK", TRUE, <<>>, <<>>),
      HttpResponse(200, "OK", FALSE, <<>>, <<>>),
      HttpResponse(500, "Internal Server Error", TRUE, <<>>, <<"model unavailable">>),
      HttpResponse(500, "Internal Server Error", TRUE, <<>>, <<>>),
      HttpResponse(500, "Internal Server Error", FALSE, <<>>, <<>>),
      Rejection(TRUE, "Failed to fetch"),
      Rejection(FALSE, "") }

NoRequest == [text |-> "", cleared |-> FALSE]

\* ---------------------------------------------------------- backend handler

KeyMissing == "OpenAI API key not configured."
UsePost == "Please use the POST method."
InvalidBody == "Invalid request body. Expecting JSON with a 'transcript' field."
EmptyCompletion == "Received an empty response from OpenAI."
AiFailed == "Failed to get response from AI."
ApiErrorPrefix == "OpenAI API Error: "

\* The HandlerEvent: its method and its body (present, parsing as JSON, with a
\* transcript field or without).
Event(method, present, json, transcriptField) ==
    [httpMethod |-> method, present |-> present, json |-> json,
     transcript |-> transcriptField]

\* The request the component sends.
ClientEvent(text) == Event("POST", TRUE, TRUE, <<text>>)

Events ==
    {ClientEvent(t) : t \in Results}
    \cup { Event("GET", FALSE, FALSE, <<>>),
           Event("POST", FALSE, FALSE, <<>>),
           Event("POST", TRUE, FALSE, <<>>),
           Event("POST", TRUE, TRUE, <<>>),
           Event("POST", TRUE, TRUE, <<"">>) }

Completions ==
    { Replied(<<" It is 3:45 PM. ">>),
      Replied(<<"">>),
      Replied(<<"  ">>),
      Replied(<<>>),
      Threw(FALSE, TRUE, <<>>, "model unavailable"),
      Threw(TRUE, TRUE, <<"model unavailable">>, "Request failed with status code 503"),
      Threw(TRUE, TRUE, <<>>, "model unavailable"),
      Threw(FALSE, FALSE, <<>>, "") }

\* What the handler returns: statusCode and the body's response or error field.
Returned(statusCode, response, error) ==
    [statusCode |-> statusCode, response |-> response, error |-> error]

\* The catch block around the provider call.
errorMessage(c) ==
    IF c.hasResponse
    THEN ApiErrorPrefix \o (IF Truthy(c.apiMessage) THEN c.apiMessage[1] ELSE c.message)
    ELSE IF c.isError THEN c.message
    ELSE AiFailed

handlerNoEmptyCheck(keyConfigured, event, c) ==
    IF ~keyConfigured THEN Returned(500, <<>>, <<KeyMissing>>)
    ELSE IF event.httpMethod # "POST" THEN Returned(405, <<>>, <<UsePost>>)
    ELSE IF \/ ~event.present
            \/ ~event.json
            \/ ~Truthy(event.transcript)
            \/ Trim(event.transcript[1]) = ""
    THEN Returned(400, <<>>, <<InvalidBody>>)
    ELSE IF c.threw THEN Returned(500, <<>>, <<errorMessage(c)>>)
    ELSE Returned(200, IF c.content = <<>> THEN <<>> ELSE <<Trim(c.content[1])>>, <<>>)

\* handler: prerequisites, the request body, the provider call and its reply.
handler(keyConfigured, event, c) ==
    IF ~keyConfigured THEN Returned(500, <<>>, <<KeyMissing>>)
    ELSE IF event.httpMethod # "POST" THEN Returned(405, <<>>, <<UsePost>>)
    ELSE IF \/ ~event.present
            \/ ~event.json
            \/ ~Truthy(event.transcript)
            \/ Trim(event.transcript[1]) = ""
    THEN Returned(400, <<>>, <<InvalidBody>>)
    ELSE IF c.threw THEN Returned(500, <<>>, <<errorMessage(c)>>)
    ELSE LET aiResponse == IF c.content = <<>> THEN <<>> ELSE <<Trim(c.content[1])>>
         IN IF ~Truthy(aiResponse)
            THEN Returned(500, <<>>, <<errorMessage(Threw(FALSE, TRUE, <<>>, EmptyCompletion))>>)
            ELSE Returned(200, aiResponse, <<>>)

StatusText(statusCode) ==
    CASE statusCode = 200 -> "OK"
      [] statusCode = 400 -> "Bad Request"
      [] statusCode = 405 -> "Method Not Allowed"
      [] OTHER -> "Internal Server Error"

\* The handler's return value as the Response the component receives.
AsResponse(h, c) ==
    [HttpResponse(h.statusCode, StatusText(h.statusCode), TRUE, h.response, h.error)
     EXCEPT !.origin = "handler", !.completion = c]

\* The provider calls behind the responses the component is given.
Served ==
    { Replied(<<" It is 3:45 PM. ">>), Replied(<<"  ">>), Replied(<<>>),
      Threw(TRUE, TRUE, <<"model unavailable">>, "Request failed with status code 503") }

\* --------------------------------------------------------- history records

\* The record of a step: which operation ran (op), whether the step before ran
\* the same operation (repeated), the finalized text the effect handed to
\* getAiResponse (delivered), whether fetch was called (issued), the texts
\* speak was invoked with (spoke), whether synth.cancel was called (cancelled),
\* whether SpeechRecognition.startListening was called (captureStart), the
\* memo the step started from, and for a resolution the request and its outcome.
Step(op, delivered, issued, spoke, cancelled, captureStart, request, outcome) ==
    [op |-> op, repeated |-> (last.op = op), delivered |-> delivered,
     issued |-> issued, spoke |-> spoke, cancelled |-> cancelled,
     captureStart |-> captureStart,
     memoBefore |-> lastProcessedTranscript, request |-> request,
     outcome |-> outcome]

EnvStep(op) == Step(op, <<>>, FALSE, <<>>, FALSE, FALSE, NoRequest, NoOutcome)

\* ------------------------------------------------------ speech output engine

\* The engine as the handlers of one step see it; calls collects the texts
\* speak is invoked with during the step.
Engine ==
    [queue |-> utteranceQueue, started |-> utteranceStarted,
     stale |-> staleEvents, cancelled |-> FALSE, calls |-> <<>>]

\* synth.speaking
Speaking(e) == e.queue # <<>>

\* synth.cancel(): every utterance leaves the queue; the end/error event of the
\* one that was current is still to be delivered.
synthCancel(e) ==
    [e EXCEPT !.queue = <<>>, !.started = FALSE,
              !.stale = (e.stale \/ e.queue # <<>>),
              !.cancelled = TRUE]

\* synth.speak(utterance): the utterance joins the queue.
synthSpeak(e, text) == [e EXCEPT !.queue = Append(e.queue, text)]

speakNoCancel(text, e) ==
    LET called == [e EXCEPT !.calls = Append(e.calls, text)] IN
    IF ~TruthyStr(text) THEN called ELSE synthSpeak(called, text)

speak(text, e) ==
    LET called == [e EXCEPT !.calls = Append(e.calls, text)] IN
    IF ~TruthyStr(text)
    THEN called
    ELSE synthSpeak(IF Speaking(called) THEN synthCancel(called) ELSE called, text)

\* --------------------------------------------------------------- orchestrator

\* The part of the component getAiResponse reads and writes before its await.
Turn ==
    [memo |-> lastProcessedTranscript, awaiting |-> isAiResponding,
     inflight |-> inflight]

\* fetch(...): one more request in flight.
Fetch(reqs, text) == Append(reqs, [text |-> text, cleared |-> FALSE])

getAiResponseNoDedupe(text, o) ==
    IF ~TruthyStr(text) \/ Trim(text) = "" THEN o
    ELSE [memo |-> <<text>>, awaiting |-> TRUE, inflight |-> Fetch(o.inflight, text)]

getAiResponseNoValidation(text, o) ==
    IF o.memo = <<text>> THEN o
    ELSE [memo |-> <<text>>, awaiting |-> TRUE, inflight |-> Fetch(o.inflight, text)]

getAiResponseMemoFirst(text, o) ==
    IF o.memo = <<text>> THEN o
    ELSE IF ~TruthyStr(text) \/ Trim(text) = "" THEN [o EXCEPT !.memo = <<text>>]
    ELSE [memo |-> <<text>>, awaiting |-> TRUE, inflight |-> Fetch(o.inflight, text)]

\* getAiResponse up to its await.
getAiResponse(text, o) ==
    IF ~TruthyStr(text) \/ Trim(text) = "" THEN o
    ELSE IF o.memo = <<text>> THEN o
    ELSE [memo |-> <<text>>, awaiting |-> TRUE, inflight |-> Fetch(o.inflight, text)]

useEffectIgnoresListening(l, ft, o) ==
    IF TruthyStr(ft) THEN getAiResponse(ft, o) ELSE o

\* The effect on [finalTranscript, listening].
useEffect(l, ft, o) ==
    IF ~l /\ TruthyStr(ft) THEN getAiResponse(ft, o) ELSE o

CompletionIgnoresBody(r) ==
    IF r.kind = "reject"
    THEN [success |-> FALSE, reply |-> "", isError |-> r.isError, message |-> r.message]
    ELSE IF ~r.ok
    THEN [success |-> FALSE, reply |-> "", isError |-> TRUE,
          message |-> "Function Error (" \o ToString(r.status) \o "): " \o r.statusText]
    ELSE IF ~r.json
    THEN [success |-> FALSE, reply |-> "", isError |-> TRUE, message |-> JsonSyntaxMessage]
    ELSE IF Truthy(r.response)
    THEN [success |-> TRUE, reply |-> r.response[1], isError |-> FALSE, message |-> ""]
    ELSE [success |-> FALSE, reply |-> "", isError |-> TRUE, message |-> NoResponseField]

CompletionStatusTextOnParseFailure(r) ==
    IF r.kind = "reject"
    THEN [success |-> FALSE, reply |-> "", isError |-> r.isError, message |-> r.message]
    ELSE IF ~r.ok
    THEN LET errorBodyError == IF r.json THEN r.error ELSE <<>>
             detail == IF Truthy(errorBodyError) THEN errorBodyError[1] ELSE r.statusText
         IN [success |-> FALSE, reply |-> "", isError |-> TRUE,
             message |-> "Function Error (" \o ToString(r.status) \o "): " \o detail]
    ELSE IF ~r.json
    THEN [success |-> FALSE, reply |-> "", isError |-> TRUE, message |-> JsonSyntaxMessage]
    ELSE IF Truthy(r.response)
    THEN [success |-> TRUE, reply |-> r.response[1], isError |-> FALSE, message |-> ""]
    ELSE [success |-> FALSE, reply |-> "", isError |-> TRUE, message |-> NoResponseField]

\* What the try block makes of an outcome: the reply, or the thrown value.
Completion(r) ==
    IF r.kind = "reject"
    THEN [success |-> FALSE, reply |-> "", isError |-> r.isError, message |-> r.message]
    ELSE IF ~r.ok
    THEN LET errorBodyError == IF r.json THEN r.error ELSE <<ParseFallback>>
             detail == IF Truthy(errorBodyError) THEN errorBodyError[1] ELSE r.statusText
         IN [success |-> FALSE, reply |-> "", isError |-> TRUE,
             message |-> "Function Error (" \o ToString(r.status) \o "): " \o detail]
    ELSE IF ~r.json
    THEN [success |-> FALSE, reply |-> "", isError |-> TRUE, message |-> JsonSyntaxMessage]
    ELSE IF Truthy(r.response)
    THEN [success |-> TRUE, reply |-> r.response[1], isError |-> FALSE, message |-> ""]
    ELSE [success |-> FALSE, reply |-> "", isError |-> TRUE, message |-> NoResponseField]

\* The catch block's message.
feedbackMessage(c) ==
    IF c.isError THEN FeedbackPrefix \o c.message ELSE UnknownFeedback

resolvedSilentOnMalformed(r, e) ==
    LET c == Completion(r) IN
    IF c.success
    THEN [aiResponseText |-> c.reply, engine |-> speak(c.reply, e), awaiting |-> FALSE]
    ELSE IF c.message = NoResponseField
    THEN [aiResponseText |-> "", engine |-> e, awaiting |-> FALSE]
    ELSE [aiResponseText |-> "", engine |-> speak(feedbackMessage(c), e), awaiting |-> FALSE]

resolvedKeepsDisplay(r, e) ==
    LET c == Completion(r) IN
    IF c.success
    THEN [aiResponseText |-> aiResponseText, engine |-> speak(c.reply, e), awaiting |-> FALSE]
    ELSE [aiResponseText |-> "", engine |-> speak(feedbackMessage(c), e), awaiting |-> FALSE]

\* getAiResponse after its await: try, catch and finally.
resolved(r, e) ==
    LET c == Completion(r) IN
    IF c.success
    THEN [aiResponseText |-> c.reply, engine |-> speak(c.reply, e), awaiting |-> FALSE]
    ELSE [aiResponseText |-> "", engine |-> speak(feedbackMessage(c), e), awaiting |-> FALSE]

\* Requests in flight when the memo is cleared are marked (history only).
MarkCleared(reqs) == [i \in 1..Len(reqs) |-> [reqs[i] EXCEPT !.cleared = TRUE]]

clearMemoAborts(o) == [o EXCEPT !.memo = <<>>, !.awaiting = FALSE, !.inflight = <<>>]

clearMemoKeeps(o) == [o EXCEPT !.inflight = MarkCleared(o.inflight)]

\* lastProcessedTranscript.current = null
clearMemo(o) == [o EXCEPT !.memo = <<>>, !.inflight = MarkCleared(o.inflight)]

startNoMicCheck(mic, e) ==
    [engine |-> IF Speaking(e) THEN synthCancel(e) ELSE e, captureStart |-> TRUE]

\* handleStartListening from its microphone check on: the notice, or the
\* cancel and the request to the capture service.
startOrReject(mic, e) ==
    IF ~mic
    THEN [engine |-> speak(MicNotice, e), captureStart |-> FALSE]
    ELSE [engine |-> IF Speaking(e) THEN synthCancel(e) ELSE e, captureStart |-> TRUE]

RemoveAt(s, i) == SubSeq(s, 1, i - 1) \o SubSeq(s, i + 1, Len(s))

\* History of accepted utterances: the last one, the one before it, and those
\* since the memo was last cleared.
Accepted(h, before, after) ==
    IF Len(after) > Len(before)
    THEN [accepted |-> <<after[Len(after)].text>>, previous |-> h.accepted,
          sinceClear |-> Append(h.sinceClear, after[Len(after)].text)]
    ELSE h

Cleared(h) == [h EXCEPT !.sinceClear = <<>>]

\* ------------------------------------------------------------------- state

SetEngine(e) ==
    /\ utteranceQueue' = e.queue
    /\ utteranceStarted' = e.started
    /\ staleEvents' = e.stale

SetTurn(o) ==
    /\ lastProcessedTranscript' = o.memo
    /\ isAiResponding' = o.awaiting
    /\ inflight' = o.inflight

Init ==
    /\ lastProcessedTranscript = <<>>
    /\ isSynthesizing = FALSE
    /\ isAiResponding = FALSE
    /\ aiResponseText = ""
    /\ listening = FALSE
    /\ finalTranscript = ""
    /\ transcript = ""
    /\ isMicrophoneAvailable = TRUE
    /\ utteranceQueue = <<>>
    /\ utteranceStarted = FALSE
    /\ staleEvents = FALSE
    /\ inflight = <<>>
    /\ last = [op |-> "init", repeated |-> FALSE, delivered |-> <<>>,
               issued |-> FALSE, spoke |-> <<>>, cancelled |-> FALSE,
               captureStart |-> FALSE, memoBefore |-> <<>>,
               request |-> NoRequest, outcome |-> NoOutcome]
    /\ hist = [accepted |-> <<>>, previous |-> <<>>, sinceClear |-> <<>>]

\* ---------------------------------------------------------------- handlers

handleStartListeningChecksMicFirst ==
    /\ ~listening
    /\ IF isMicrophoneAvailable
       THEN /\ transcript' = ""
            /\ finalTranscript' = ""
            /\ aiResponseText' = ""
            /\ LET cleared == clearMemo(Turn)
                   s == startOrReject(TRUE, Engine)
                   o == useEffect(s.captureStart, "", cleared)
               IN /\ listening' = s.captureStart
                  /\ SetEngine(s.engine)
                  /\ SetTurn(o)
                  /\ hist' = Accepted(Cleared(hist), cleared.inflight, o.inflight)
                  /\ last' = Step("startListening", <<>>, Len(o.inflight) > Len(inflight),
                                  s.engine.calls, s.engine.cancelled, s.captureStart,
                                  NoRequest, NoOutcome)
       ELSE /\ LET e == speak(MicNotice, Engine)
               IN /\ SetEngine(e)
                  /\ last' = Step("startListening", <<>>, FALSE, e.calls, e.cancelled,
                                  FALSE, NoRequest, NoOutcome)
            /\ UNCHANGED <<lastProcessedTranscript, isAiResponding, aiResponseText,
                           listening, finalTranscript, transcript, inflight, hist>>
    /\ UNCHANGED <<isSynthesizing, isMicrophoneAvailable>>

\* The Start Listening button.
handleStartListening ==
    /\ ~listening                                   \* the button is disabled while listening
    /\ transcript' = ""                             \* resetTranscript()
    /\ finalTranscript' = ""
    /\ aiResponseText' = ""
    /\ LET cleared == clearMemo(Turn)
           s == startOrReject(isMicrophoneAvailable, Engine)
           e == s.engine
           started == s.captureStart                \* the session begins
           o == useEffect(started, "", cleared)
       IN /\ listening' = started
          /\ SetEngine(e)
          /\ SetTurn(o)
          /\ hist' = Accepted(Cleared(hist), cleared.inflight, o.inflight)
          /\ last' = Step("startListening", <<>>, Len(o.inflight) > Len(inflight),
                          e.calls, e.cancelled, started, NoRequest, NoOutcome)
    /\ UNCHANGED <<isSynthesizing, isMicrophoneAvailable>>

handleStopListening ==
    /\ listening                                    \* the button is disabled unless listening
    /\ listening' = FALSE
    /\ LET o == useEffect(FALSE, finalTranscript, Turn)
       IN /\ SetTurn(o)
          /\ hist' = Accepted(hist, inflight, o.inflight)
          /\ last' = Step("stopListening", <<finalTranscript>>,
                          Len(o.inflight) > Len(inflight), <<>>, FALSE, FALSE,
                          NoRequest, NoOutcome)
    /\ UNCHANGED <<isSynthesizing, aiResponseText, finalTranscript, transcript,
                   isMicrophoneAvailable, utteranceQueue, utteranceStarted, staleEvents>>

handleResetKeepsReply ==
    /\ transcript' = ""
    /\ finalTranscript' = ""
    /\ LET cleared == clearMemo(Turn)
           e == speak(ResetPhrase, Engine)
           o == useEffect(listening, "", cleared)
       IN /\ SetEngine(e)
          /\ SetTurn(o)
          /\ hist' = Accepted(Cleared(hist), cleared.inflight, o.inflight)
          /\ last' = Step("reset", <<>>, Len(o.inflight) > Len(inflight),
                          e.calls, e.cancelled, FALSE, NoRequest, NoOutcome)
    /\ UNCHANGED <<aiResponseText, isSynthesizing, listening, isMicrophoneAvailable>>

handleReset ==
    /\ transcript' = ""                             \* resetTranscript()
    /\ finalTranscript' = ""
    /\ aiResponseText' = ""
    /\ LET cleared == clearMemo(Turn)
           e == speak(ResetPhrase, Engine)
           o == useEffect(listening, "", cleared)
       IN /\ SetEngine(e)
          /\ SetTurn(o)
          /\ hist' = Accepted(Cleared(hist), cleared.inflight, o.inflight)
          /\ last' = Step("reset", <<>>, Len(o.inflight) > Len(inflight),
                          e.calls, e.cancelled, FALSE, NoRequest, NoOutcome)
    /\ UNCHANGED <<isSynthesizing, listening, isMicrophoneAvailable>>

handleSpeakInputShowsText(text) ==
    /\ Trim(text) # "" /\ ~isSynthesizing
    /\ aiResponseText' = text
    /\ LET e == speak(text, Engine)
       IN /\ SetEngine(e)
          /\ last' = Step("speakInput", <<>>, FALSE, e.calls, e.cancelled, FALSE,
                          NoRequest, NoOutcome)
    /\ UNCHANGED <<lastProcessedTranscript, isSynthesizing, isAiResponding,
                   listening, finalTranscript, transcript,
                   isMicrophoneAvailable, inflight, hist>>

\* The Speak Text button with `text` in the input field.
handleSpeakInput(text) ==
    /\ Trim(text) # "" /\ ~isSynthesizing           \* the button is disabled otherwise
    /\ LET e == speak(text, Engine)
       IN /\ SetEngine(e)
          /\ last' = Step("speakInput", <<>>, FALSE, e.calls, e.cancelled, FALSE,
                          NoRequest, NoOutcome)
    /\ UNCHANGED <<lastProcessedTranscript, isSynthesizing, isAiResponding,
                   aiResponseText, listening, finalTranscript, transcript,
                   isMicrophoneAvailable, inflight, hist>>

\* Request i resolves with outcome r: the rest of getAiResponse runs.
Resolve(i, r) ==
    /\ i \in 1..Len(inflight)
    /\ LET done == resolved(r, Engine)
       IN /\ aiResponseText' = done.aiResponseText
          /\ isAiResponding' = done.awaiting
          /\ SetEngine(done.engine)
          /\ last' = Step("resolve", <<>>, FALSE, done.engine.calls,
                          done.engine.cancelled, FALSE, inflight[i], r)
    /\ inflight' = RemoveAt(inflight, i)
    /\ UNCHANGED <<lastProcessedTranscript, isSynthesizing, listening, finalTranscript,
                   transcript, isMicrophoneAvailable, hist>>

\* Request i is answered by the backend handler: it runs on the request the
\* component sent, with or without a key and with what the provider does, and
\* its return value is the response the request resolves with.
Serve(i, keyConfigured, c) ==
    /\ i \in 1..Len(inflight)
    /\ LET called == IF keyConfigured THEN c ELSE NoCompletion
       IN Resolve(i, AsResponse(handler(keyConfigured, ClientEvent(inflight[i].text), called),
                                called))

\* -------------------------------------------------------------- environment

\* The recognizer finalizes the result of the running session.
CaptureResult(w) ==
    /\ listening
    /\ finalTranscript = ""
    /\ Len(inflight) < MaxInflight
    /\ finalTranscript' = w
    /\ transcript' = w
    /\ LET o == useEffect(listening, finalTranscript', Turn)
       IN /\ SetTurn(o)
          /\ hist' = Accepted(hist, inflight, o.inflight)
          /\ last' = Step("captureResult", <<>>, Len(o.inflight) > Len(inflight),
                          <<>>, FALSE, FALSE, NoRequest, NoOutcome)
    /\ UNCHANGED <<isSynthesizing, aiResponseText, listening, isMicrophoneAvailable,
                   utteranceQueue, utteranceStarted, staleEvents>>

\* The one-shot session ends by itself (continuous: false).
CaptureEnd ==
    /\ listening
    /\ listening' = FALSE
    /\ LET o == useEffect(FALSE, finalTranscript, Turn)
       IN /\ SetTurn(o)
          /\ hist' = Accepted(hist, inflight, o.inflight)
          /\ last' = Step("captureEnd", <<finalTranscript>>,
                          Len(o.inflight) > Len(inflight), <<>>, FALSE, FALSE,
                          NoRequest, NoOutcome)
    /\ UNCHANGED <<isSynthesizing, aiResponseText, finalTranscript, transcript,
                   isMicrophoneAvailable, utteranceQueue, utteranceStarted, staleEvents>>

\* The effect runs again on unchanged values (a re-render that re-runs effects).
EffectRerun ==
    /\ LET o == useEffect(listening, finalTranscript, Turn)
       IN /\ SetTurn(o)
          /\ hist' = Accepted(hist, inflight, o.inflight)
          /\ last' = Step("effect", IF listening THEN <<>> ELSE <<finalTranscript>>,
                          Len(o.inflight) > Len(inflight), <<>>, FALSE, FALSE,
                          NoRequest, NoOutcome)
    /\ UNCHANGED <<isSynthesizing, aiResponseText, listening, finalTranscript, transcript,
                   isMicrophoneAvailable, utteranceQueue, utteranceStarted, staleEvents>>

\* Microphone access is lost; a running session ends.
MicrophoneDenied ==
    /\ isMicrophoneAvailable
    /\ isMicrophoneAvailable' = FALSE
    /\ listening' = FALSE
    /\ LET o == IF listening THEN useEffect(FALSE, finalTranscript, Turn) ELSE Turn
       IN /\ SetTurn(o)
          /\ hist' = Accepted(hist, inflight, o.inflight)
          /\ last' = Step("micDenied", IF listening THEN <<finalTranscript>> ELSE <<>>,
                          Len(o.inflight) > Len(inflight), <<>>, FALSE, FALSE,
                          NoRequest, NoOutcome)
    /\ UNCHANGED <<isSynthesizing, aiResponseText, finalTranscript, transcript,
                   utteranceQueue, utteranceStarted, staleEvents>>

MicrophoneGranted ==
    /\ ~isMicrophoneAvailable
    /\ isMicrophoneAvailable' = TRUE
    /\ last' = EnvStep("micGranted")
    /\ UNCHANGED <<lastProcessedTranscript, isSynthesizing, isAiResponding,
                   aiResponseText, listening, finalTranscript, transcript,
                   utteranceQueue, utteranceStarted, staleEvents, inflight, hist>>

\* utterance.onstart
EngineStart ==
    /\ utteranceQueue # <<>> /\ ~utteranceStarted
    /\ utteranceStarted' = TRUE
    /\ isSynthesizing' = TRUE
    /\ last' = EnvStep("onstart")
    /\ UNCHANGED <<lastProcessedTranscript, isAiResponding, aiResponseText, listening,
                   finalTranscript, transcript, isMicrophoneAvailable, utteranceQueue,
                   staleEvents, inflight, hist>>

\* utterance.onend of the current utterance
EngineEnd ==
    /\ utteranceQueue # <<>> /\ utteranceStarted
    /\ utteranceQueue' = Tail(utteranceQueue)
    /\ utteranceStarted' = FALSE
    /\ isSynthesizing' = FALSE
    /\ last' = EnvStep("onend")
    /\ UNCHANGED <<lastProcessedTranscript, isAiResponding, aiResponseText, listening,
                   finalTranscript, transcript, isMicrophoneAvailable, staleEvents,
                   inflight, hist>>

\* utterance.onerror of the current utterance
EngineError ==
    /\ utteranceQueue # <<>>
    /\ utteranceQueue' = Tail(utteranceQueue)
    /\ utteranceStarted' = FALSE
    /\ isSynthesizing' = FALSE
    /\ last' = EnvStep("onerror")
    /\ UNCHANGED <<lastProcessedTranscript, isAiResponding, aiResponseText, listening,
                   finalTranscript, transcript, isMicrophoneAvailable, staleEvents,
                   inflight, hist>>

\* onend / onerror of an utterance that synth.cancel removed; more of them may
\* remain undelivered.
StaleEvent ==
    /\ staleEvents
    /\ staleEvents' \in BOOLEAN
    /\ isSynthesizing' = FALSE
    /\ last' = EnvStep("staleEvent")
    /\ UNCHANGED <<lastProcessedTranscript, isAiResponding, aiResponseText, listening,
                   finalTranscript, transcript, isMicrophoneAvailable, utteranceQueue,
                   utteranceStarted, inflight, hist>>

Next ==
    \/ handleStartListening
    \/ handleStopListening
    \/ handleReset
    \/ \E t \in ManualTexts : handleSpeakInput(t)
    \/ \E i \in 1..MaxInflight, r \in Outcomes : Resolve(i, r)
    \/ \E i \in 1..MaxInflight, k \in BOOLEAN, c \in Served : Serve(i, k, c)
    \/ \E w \in Results : CaptureResult(w)
    \/ CaptureEnd
    \/ EffectRerun
    \/ MicrophoneDenied
    \/ MicrophoneGranted
    \/ EngineStart
    \/ EngineEnd
    \/ EngineError
    \/ StaleEvent

Spec == Init /\ [][Next]_vars

\* Every issued request eventually resolves or rejects: the oldest one in
\* flight is not left waiting forever.
FairSpec == Spec /\ WF_vars(\E r \in Outcomes : Resolve(1, r))

\* ------------------------------------------------------------------ claims

SeqRange(s) == {s[i] : i \in 1..Len(s)}

\* The last step handed this finalized text to the effect while not listening.
Delivered(t) == last.delivered = <<t>>

\* C1: between two clearings of the memo (startListening, reset) no text has
\* two inference requests issued for it, however often it is delivered and
\* whether the first request is still pending or has resolved.
C1_AtMostOneRequestPerText ==
    \A i, j \in 1..Len(hist.sinceClear) :
        i # j => hist.sinceClear[i] # hist.sinceClear[j]

\* C1 witness: a text whose request has already resolved is delivered again,
\* with no startListening or reset in between, and no request is issued.
C1_Witness ==
    /\ last.op = "effect"
    /\ Truthy(last.delivered)
    /\ last.delivered[1] \in SeqRange(hist.sinceClear)
    /\ ~last.issued
    /\ inflight = <<>>

\* C2 (as claimed): at most one inference request is in flight in every
\* reachable state.
C2_SingleFlight == Len(inflight) <= 1

\* C3: the output engine never holds more than one utterance, and a speak call
\* with non-empty text made while an output is in progress cancels it and
\* leaves the new text as the only utterance.
C3_SpeakReplacesOutput ==
    /\ [](Len(utteranceQueue) <= 1)
    /\ [][(/\ last'.spoke # <<>>
           /\ TruthyStr(last'.spoke[1])
           /\ utteranceQueue # <<>>)
          => (/\ last'.cancelled
              /\ utteranceQueue' = <<last'.spoke[1]>>
              /\ ~utteranceStarted')]_vars

\* C3 witness: a reply is spoken while another output was in progress.
C3_Witness ==
    /\ last.op = "resolve"
    /\ last.cancelled
    /\ last.spoke = <<"It is 3:45 PM.">>
    /\ utteranceQueue = <<"It is 3:45 PM.">>

\* C4: after startListening or reset the memo is empty, and a non-blank
\* finalized utterance delivered to an empty memo is accepted: a request for
\* it is issued and the memo holds it.
C4_AcceptedAfterClear ==
    /\ last.op \in {"startListening", "reset"} => lastProcessedTranscript = <<>>
    /\ \A t \in Results :
          (Delivered(t) /\ Trim(t) # "" /\ last.memoBefore = <<>>)
          => (/\ last.issued
              /\ inflight # <<>>
              /\ inflight[Len(inflight)].text = t
              /\ lastProcessedTranscript = <<t>>)

\* C4 witness: the accepted utterance has the text of the one accepted before
\* it, whose request has already resolved.
C4_Witness ==
    /\ last.issued
    /\ hist.accepted # <<>>
    /\ hist.previous = hist.accepted
    /\ Len(inflight) = 1

\* C5: when a request resolves with status 200 and a non-empty response r, the
\* awaiting flag is false, the last reply is r, and speak was invoked exactly
\* once, with r, which is now the engine's utterance.
C5_SuccessfulTurn ==
    (/\ last.op = "resolve"
     /\ last.outcome.ok
     /\ last.outcome.json
     /\ Truthy(last.outcome.response))
    => (/\ ~isAiResponding
        /\ aiResponseText = last.outcome.response[1]
        /\ last.spoke = <<last.outcome.response[1]>>
        /\ utteranceQueue = <<last.outcome.response[1]>>)

\* C5 witness: the request for "what time is it" resolves with "It is 3:45 PM.".
C5_Witness ==
    /\ last.op = "resolve"
    /\ last.request.text = "what time is it"
    /\ last.outcome.status = 200
    /\ aiResponseText = "It is 3:45 PM."
    /\ inflight = <<>>

\* C6: when a request resolves with a non-200 status and a body {error: m}, one
\* fallback message containing m is spoken, the awaiting flag is false, and,
\* unless startListening or reset ran since the request was issued, the memo
\* still holds the failed utterance; a text delivered while the memo holds it
\* issues no request.
C6_ServerErrorNoRetry ==
    /\ (/\ last.op = "resolve"
        /\ last.outcome.kind = "response"
        /\ ~last.outcome.ok
        /\ last.outcome.json
        /\ Truthy(last.outcome.error))
       => (/\ Len(last.spoke) = 1
           /\ Contains(last.spoke[1], last.outcome.error[1])
           /\ utteranceQueue = last.spoke
           /\ ~isAiResponding
           /\ (~last.request.cleared
               => lastProcessedTranscript = <<last.request.text>>))
    /\ (last.delivered # <<>> /\ last.delivered = last.memoBefore) => ~last.issued

\* C6 witness: after the fallback for "model unavailable" was spoken the failed
\* text is delivered again and nothing is sent.
C6_Witness ==
    /\ last.op = "effect"
    /\ Truthy(last.delivered)
    /\ last.delivered = last.memoBefore
    /\ ~last.issued
    /\ inflight = <<>>
    /\ utteranceQueue # <<>>
    /\ Contains(utteranceQueue[1], "model unavailable")

\* The last step delivered an empty or whitespace-only finalized utterance.
BlankDelivered == last.delivered # <<>> /\ Trim(last.delivered[1]) = ""

\* C7: a step that delivers an empty or whitespace-only finalized utterance
\* issues no request and leaves the memo, the awaiting flag, the last reply and
\* the output state as they were.
C7_BlankUtteranceChangesNothing ==
    [][BlankDelivered'
       => (/\ ~last'.issued
           /\ UNCHANGED <<lastProcessedTranscript, inflight, isAiResponding,
                          aiResponseText, isSynthesizing, utteranceQueue,
                          utteranceStarted>>)]_vars

\* C7 witness: a session ends with a whitespace-only finalized utterance.
C7_Witness ==
    /\ last.op = "captureEnd"
    /\ last.delivered = <<" ">>

\* What reset's idempotence is about.
ResetObservable ==
    <<lastProcessedTranscript, aiResponseText, isAiResponding, utteranceQueue,
      finalTranscript, transcript, listening, isSynthesizing, inflight>>

\* C8: after reset, from any state, the memo and the last reply are empty and
\* the confirmation phrase is the engine's only utterance; a reset that follows
\* a reset changes none of memo, last reply, awaiting flag and output.
C8_ResetClearsAndIsIdempotent ==
    /\ [](last.op = "reset"
          => (/\ lastProcessedTranscript = <<>>
              /\ aiResponseText = ""
              /\ utteranceQueue = <<ResetPhrase>>))
    /\ [][(last.op = "reset" /\ last'.op = "reset")
          => ResetObservable' = ResetObservable]_vars

\* C8 witness: reset runs twice in a row while a request is pending.
C8_Witness ==
    /\ last.op = "reset"
    /\ last.repeated
    /\ inflight # <<>>
    /\ isAiResponding

\* C9 (as claimed): every accepted utterance is eventually followed by a state
\* in which the awaiting flag is false and no request is in flight.
C9_EventuallyIdle ==
    last.issued ~> (~isAiResponding /\ inflight = <<>>)

\* C10: startListening with the microphone unavailable does not ask the capture
\* service to start, leaves listening false, issues no request and speaks the
\* fixed notice.
C10_MicrophoneUnavailable ==
    (last.op = "startListening" /\ ~isMicrophoneAvailable)
    => (/\ ~last.captureStart
        /\ ~listening
        /\ ~last.issued
        /\ last.spoke = <<MicNotice>>
        /\ utteranceQueue = <<MicNotice>>)

\* C10 witness: the notice interrupts a reply that was being spoken.
C10_Witness ==
    /\ last.op = "startListening"
    /\ ~isMicrophoneAvailable
    /\ last.cancelled
    /\ utteranceQueue = <<MicNotice>>

\* C11 (as claimed): a speak call with an empty or whitespace-only text leaves
\* the output state as it was: nothing is cancelled and no utterance is handed
\* to the engine.
C11_BlankSpeakIsNoOp ==
    [][(last'.spoke # <<>> /\ Trim(last'.spoke[1]) = "")
       => UNCHANGED <<utteranceQueue, utteranceStarted, staleEvents, isSynthesizing>>]_vars

\* C12: the memo is empty or holds the most recently accepted utterance; it
\* changes only by being emptied in startListening or reset, or by taking the
\* delivered text in the step that issues the request for it.  A rejected
\* delivery and a resolution leave it alone.
C12_MemoIsLastAccepted ==
    /\ [](lastProcessedTranscript = <<>> \/ lastProcessedTranscript = hist.accepted)
    /\ [][lastProcessedTranscript' # lastProcessedTranscript
          => \/ (/\ lastProcessedTranscript' = <<>>
                 /\ last'.op \in {"startListening", "reset"})
             \/ (/\ last'.issued
                 /\ lastProcessedTranscript' = last'.delivered
                 /\ lastProcessedTranscript' = hist'.accepted)]_vars

\* C12 witness: a request has resolved with an error and the memo still holds
\* the utterance it was issued for.
C12_Witness ==
    /\ last.op = "resolve"
    /\ ~last.outcome.ok
    /\ lastProcessedTranscript = <<last.request.text>>
    /\ lastProcessedTranscript = hist.accepted

\* The texts of the requests, in order.
Texts(reqs) == [i \in 1..Len(reqs) |-> reqs[i].text]

\* C13: startListening leaves every request in flight and, when it starts a
\* session, leaves the engine without an utterance; no step but a resolution
\* takes a request out of flight; a request that was in flight across a
\* startListening or reset is still spoken when it resolves; and such a
\* request does resolve.
C13_StartKeepsRequest ==
    /\ [][last'.op = "startListening"
          => (/\ Texts(inflight') = Texts(inflight)
              /\ (last'.captureStart => utteranceQueue' = <<>>))]_vars
    /\ [][Len(inflight') < Len(inflight) => last'.op = "resolve"]_vars
    /\ []((last.op = "resolve" /\ last.request.cleared)
          => (/\ Len(last.spoke) = 1
              /\ TruthyStr(last.spoke[1])
              /\ utteranceQueue = last.spoke))
    /\ ((inflight # <<>> /\ inflight[1].cleared)
        ~> (last.op = "resolve" /\ last.request.cleared))

\* C13 witness: the reply of a request that was pending when startListening
\* ran is spoken while the new session is listening.
C13_Witness ==
    /\ last.op = "resolve"
    /\ last.request.cleared
    /\ listening
    /\ utteranceQueue = <<"It is 3:45 PM.">>

\* The last step resolved a request with a non-success status.
ServerErrorResolved ==
    last.op = "resolve" /\ last.outcome.kind = "response" /\ ~last.outcome.ok

\* The one fallback spoken holds the status code and `detail`.
FallbackHolds(detail) ==
    /\ Len(last.spoke) = 1
    /\ Contains(last.spoke[1], ToString(last.outcome.status))
    /\ Contains(last.spoke[1], detail)
    /\ detail # ""

\* C14 (as claimed): the detail is the body's error string when the body parses
\* and has a non-empty error field, and the HTTP status text otherwise.
C14_DetailOrStatusText ==
    ServerErrorResolved
    => FallbackHolds(IF last.outcome.json /\ Truthy(last.outcome.error)
                     THEN last.outcome.error[1]
                     ELSE last.outcome.statusText)

\* C14 (amended): the detail is the body's error string when the body parses
\* and has a non-empty error field, the fixed parse-failure message when the
\* body does not parse, and the HTTP status text when it parses without a
\* non-empty error field.
C14_DetailParseFallbackOrStatusText ==
    ServerErrorResolved
    => FallbackHolds(IF ~last.outcome.json THEN ParseFallback
                     ELSE IF Truthy(last.outcome.error) THEN last.outcome.error[1]
                     ELSE last.outcome.statusText)

\* C14 witness: a 500 whose body does not parse is answered with the
\* parse-failure message.
C14_Witness ==
    /\ ServerErrorResolved
    /\ ~last.outcome.json
    /\ last.spoke = <<FeedbackPrefix \o "Function Error (500): " \o ParseFallback>>

\* C15: the Speak Text button changes neither memo, last reply, awaiting flag
\* nor the requests in flight, issues no request, and invokes speak once.
C15_ManualSpeakBypasses ==
    [][last'.op = "speakInput"
       => (/\ UNCHANGED <<lastProcessedTranscript, aiResponseText, isAiResponding,
                          inflight, listening, finalTranscript, transcript>>
           /\ ~last'.issued
           /\ Len(last'.spoke) = 1
           /\ last'.spoke[1] \in ManualTexts
           /\ utteranceQueue' = last'.spoke)]_vars

\* C15 witness: text is spoken from the input field while a request is pending
\* and a reply is displayed.
C15_Witness ==
    /\ last.op = "speakInput"
    /\ inflight # <<>>
    /\ lastProcessedTranscript # <<>>
    /\ aiResponseText # ""
    /\ utteranceQueue = <<"say">>

\* C17: a request is issued only by a step that sees the capture not listening
\* and hands over the finalized transcript; a result finalized while listening
\* sends nothing; and whenever the capture is not listening with a non-blank
\* finalized transcript, exactly one request has been issued for it.
C17_IssuedOnlyWhenNotListening ==
    /\ last.issued
       => (/\ ~listening
           /\ Truthy(last.delivered)
           /\ finalTranscript = last.delivered[1])
    /\ last.op = "captureResult" => (listening /\ ~last.issued)
    /\ (~listening /\ Trim(finalTranscript) # "")
       => hist.sinceClear = <<finalTranscript>>

\* C17 witness: the session that finalized "what time is it" while listening
\* has ended, the request was issued in that step, and a request of an earlier
\* session is still pending.
C17_Witness ==
    /\ last.op = "captureEnd"
    /\ last.issued
    /\ hist.sinceClear = <<"what time is it">>
    /\ Len(inflight) = 2

\* The outcome of the last step is a 200 with a usable response field.
SuccessOutcome ==
    /\ last.outcome.kind = "response"
    /\ last.outcome.ok
    /\ last.outcome.json
    /\ Truthy(last.outcome.response)

\* C18: a resolution invokes speak exactly once, with a non-empty text that
\* becomes the engine's utterance: the reply on success, a fallback message
\* otherwise; steps other than resolutions and the three speaking handlers
\* invoke speak not at all.
C18_OneSpeakPerResolution ==
    /\ last.op = "resolve"
       => (/\ Len(last.spoke) = 1
           /\ TruthyStr(last.spoke[1])
           /\ utteranceQueue = last.spoke
           /\ IF SuccessOutcome
              THEN last.spoke[1] = last.outcome.response[1]
              ELSE Contains(last.spoke[1], "Sorry, I encountered an"))
    /\ last.op \notin {"resolve", "reset", "startListening", "speakInput"}
       => last.spoke = <<>>

\* C18 witness: a request is rejected by the transport and the fallback for it
\* is spoken.
C18_Witness ==
    /\ last.op = "resolve"
    /\ last.outcome.kind = "reject"
    /\ last.spoke = <<FeedbackPrefix \o "Failed to fetch">>

\* C19 (as claimed): the awaiting flag is true exactly when a request is in
\* flight.
C19_FlagTracksInflight == isAiResponding <=> (inflight # <<>>)

\* C20 (as claimed): while an utterance is being spoken the exposed output
\* state is Speaking.
C20_SpeakingWhileSpoken ==
    (utteranceQueue # <<>> /\ utteranceStarted) => isSynthesizing

\* The event is one the handler passes on to the model provider.
ValidEvent(ev) ==
    /\ ev.httpMethod = "POST"
    /\ ev.present
    /\ ev.json
    /\ Truthy(ev.transcript)
    /\ Trim(ev.transcript[1]) # ""

\* C16: the handler answers 200 only with the provider's content, trimmed and
\* non-empty, as the response field; an empty, whitespace-only or missing first
\* completion gives a 500 with an error string; and no reply of the handler
\* takes the component into its no-valid-response-field branch.
C16_HandlerNeverMalformed ==
    /\ \A k \in BOOLEAN, ev \in Events, c \in Completions :
          LET h == handler(k, ev, c) IN
          /\ h.statusCode = 200
             => (/\ ~c.threw
                 /\ Truthy(c.content)
                 /\ Truthy(h.response)
                 /\ h.response[1] = Trim(c.content[1]))
          /\ (k /\ ValidEvent(ev) /\ ~c.threw /\ (c.content = <<>> \/ Trim(c.content[1]) = ""))
             => (h.statusCode = 500 /\ Truthy(h.error) /\ h.response = <<>>)
    /\ (last.op = "resolve" /\ last.outcome.origin = "handler")
       => (/\ last.spoke # <<FeedbackPrefix \o NoResponseField>>
           /\ last.outcome.ok
              => (/\ aiResponseText = Trim(last.outcome.completion.content[1])
                  /\ aiResponseText # ""
                  /\ last.spoke = <<aiResponseText>>))

\* C16 witness: the provider's first completion is whitespace only, the handler
\* answers 500 and the component speaks that error.
C16_Witness ==
    /\ last.op = "resolve"
    /\ last.outcome.origin = "handler"
    /\ last.outcome.completion.content = <<"  ">>
    /\ last.outcome.status = 500
    /\ last.spoke = <<FeedbackPrefix \o "Function Error (500): " \o EmptyCompletion>>

\* C21: whenever no request is in flight, the displayed reply is empty or the
\* reply to the most recently accepted utterance, and never the reply of a turn
\* that a later reset or startListening abandoned.  Stated where a reply is
\* left displayed: at the resolution that leaves no request in flight.
C21_DisplayedReplyIsCurrentTurn ==
    (last.op = "resolve" /\ inflight = <<>> /\ aiResponseText # "")
    => (/\ ~last.request.cleared
        /\ hist.accepted = <<last.request.text>>
        /\ lastProcessedTranscript = hist.accepted)

\* C22: every startListening call empties the memo, the transcript and the
\* reply text, whether or not the microphone is available; a rejected call
\* differs only in that the capture session is not started and the output is
\* not cancelled explicitly (the notice is spoken instead).
C22_StartClearsBeforeMicCheck ==
    [][last'.op = "startListening"
       => (/\ lastProcessedTranscript' = <<>>
           /\ transcript' = ""
           /\ finalTranscript' = ""
           /\ aiResponseText' = ""
           /\ ~last'.issued
           /\ Texts(inflight') = Texts(inflight)
           /\ IF isMicrophoneAvailable
              THEN /\ last'.captureStart /\ listening'
                   /\ last'.spoke = <<>>
                   /\ utteranceQueue' = <<>>
              ELSE /\ ~last'.captureStart /\ ~listening'
                   /\ last'.spoke = <<MicNotice>>
                   /\ utteranceQueue' = <<MicNotice>>)]_vars

\* C22 witness: a rejected startListening found a memo and a request in flight
\* and left the memo, the transcript and the reply text empty.
C22_Witness ==
    /\ last.op = "startListening"
    /\ ~last.captureStart
    /\ ~isMicrophoneAvailable
    /\ last.memoBefore = <<"what time is it">>
    /\ lastProcessedTranscript = <<>>
    /\ transcript = ""
    /\ aiResponseText = ""
    /\ inflight # <<>>
    /\ utteranceQueue = <<MicNotice>>

====
